---- MODULE Spec2Model ----
(***************************************************************************)
(* MAVInsight DataCollector (src/MAVInsight/data_collector.py).            *)
(*                                                                         *)
(* One DataCollector object, one caller thread that invokes                *)
(* start_collection / stop_collection / get_collected_data, and the        *)
(* _collection_loop threads that start_collection spawns.  The link        *)
(* (connection.recv_msg) is the environment: each receive returns a        *)
(* message, returns None, or raises.                                       *)
(*                                                                         *)
(* Steps of different threads interleave between the statements below;     *)
(* one list.append and one pd.DataFrame(list) construction are each taken  *)
(* as one step.                                                            *)
(***************************************************************************)
EXTENDS Integers, Sequences, FiniteSets

VARIABLES
    attitude_data,      \* self.attitude_data : list of dict
    position_data,      \* self.position_data : list of dict
    running,            \* self.running
    collection_thread,  \* self.collection_thread : NoThread (None) or a thread id
    threads,            \* every Thread object ever created: [pc, msg, err, data]
    received,           \* link history: the messages recv_msg has returned, in order
    recv_running,       \* history: for each message in received, the value of running when recv_msg returned it
    cleared,            \* history: the loops that were alive when a stop_collection set running = False
    att_src,            \* history: for each row of attitude_data, the index in received of its message
    pos_src,            \* history: same for position_data
    callerPc,           \* where the caller thread is: "idle", "start_create", "start_thread",
                        \* "start_wait", "join", "get_position"
    callerLocal,        \* the caller's frame inside get_collected_data
    stopOutcome,        \* history: how the last stop_collection since the last start ended
    lastGet             \* history: the last completed get_collected_data call

vars == <<attitude_data, position_data, running, collection_thread, threads,
          received, recv_running, att_src, pos_src, callerPc, callerLocal,
          stopOutcome, lastGet, cleared>>

(***************************************************************************)
(* Bounds                                                                  *)
(***************************************************************************)
MaxThreads == 2     \* start_collection calls explored
MaxMsgs == 2        \* messages the link delivers
MaxStarts == 3      \* start_collection calls explored when the caller only starts and stops

(***************************************************************************)
(* Python values                                                           *)
(***************************************************************************)
None == [type |-> "NoneType"]
PyStr(s) == [type |-> "str", val |-> s]

\* bool(x) for the values passed as message_type: None and "" are falsy
Truthy(x) == x.type = "str" /\ x.val # ""

\* bool(d) for a dict: empty dicts are falsy
DictTruthy(d) == DOMAIN d # {}

NoThread == 0

\* values time.time() returns; the wall clock may be set back between readings
Times == {0, 1}

Range(s) == {s[i] : i \in DOMAIN s}

(***************************************************************************)
(* The link's messages: kind (msg.get_type()) and attributes               *)
(***************************************************************************)
Messages ==
    { [kind |-> "ATTITUDE", fields |-> [roll |-> 1, pitch |-> 2, yaw |-> 3]],
      [kind |-> "ATTITUDE", fields |-> [pitch |-> 2, yaw |-> 3]],
      [kind |-> "GLOBAL_POSITION_INT", fields |-> [lat |-> 7, lon |-> 8, alt |-> 9]],
      [kind |-> "GLOBAL_POSITION_INT", fields |-> [lat |-> 7, lon |-> 8]],
      [kind |-> "HEARTBEAT", fields |-> [custom_mode |-> 0]] }

get_type(msg) == msg.kind
HasAttr(msg, f) == f \in DOMAIN msg.fields

\* arguments the caller passes as message_type
MessageTypeArgs ==
    { None, PyStr("ATTITUDE"), PyStr("GLOBAL_POSITION_INT"), PyStr("BOGUS"), PyStr("") }

(***************************************************************************)
(* Record extractors                                                       *)
(***************************************************************************)
Returned(v) == [exc |-> "", value |-> v]
Raised(e) == [exc |-> e, value |-> [e |-> TRUE]]

_process_attitude_message(msg, now) ==
    IF ~ (HasAttr(msg, "roll") /\ HasAttr(msg, "pitch") /\ HasAttr(msg, "yaw"))
    THEN Raised("AttributeError")
    ELSE Returned([timestamp |-> now,
                   roll |-> msg.fields.roll,
                   pitch |-> msg.fields.pitch,
                   yaw |-> msg.fields.yaw])

\* a position extractor that converts the altitude from millimetres to metres
_process_position_message_metres(msg, now) ==
    IF ~ (HasAttr(msg, "lat") /\ HasAttr(msg, "lon") /\ HasAttr(msg, "alt"))
    THEN [exc |-> "AttributeError", value |-> [e |-> TRUE]]
    ELSE [exc |-> "",
          value |-> [timestamp |-> now,
                     latitude |-> msg.fields.lat,
                     longitude |-> msg.fields.lon,
                     altitude |-> msg.fields.alt \div 1000]]

_process_position_message(msg, now) ==
    IF ~ (HasAttr(msg, "lat") /\ HasAttr(msg, "lon") /\ HasAttr(msg, "alt"))
    THEN Raised("AttributeError")
    ELSE Returned([timestamp |-> now,
                   latitude |-> msg.fields.lat,
                   longitude |-> msg.fields.lon,
                   altitude |-> msg.fields.alt])

\* a dispatch table that also sends HEARTBEAT to an extractor
message_types_with_heartbeat ==
    [ATTITUDE |-> "_process_attitude_message",
     GLOBAL_POSITION_INT |-> "_process_position_message",
     HEARTBEAT |-> "_process_attitude_message"]

\* self.message_types: kind -> extractor
message_types ==
    [ATTITUDE |-> "_process_attitude_message",
     GLOBAL_POSITION_INT |-> "_process_position_message"]

\* self.message_types[kind](msg)
CallExtractor(kind, msg, now) ==
    IF message_types[kind] = "_process_attitude_message"
    THEN _process_attitude_message(msg, now)
    ELSE _process_position_message(msg, now)

(***************************************************************************)
(* pd.DataFrame(list of dict): columns in key order, one row per dict      *)
(***************************************************************************)
AttitudeColumns == <<"timestamp", "roll", "pitch", "yaw">>
PositionColumns == <<"timestamp", "latitude", "longitude", "altitude">>

ColumnsOf(data) ==
    IF data = <<>> THEN <<>>
    ELSE IF DOMAIN data[1] = Range(AttitudeColumns) THEN AttitudeColumns
    ELSE PositionColumns

DataFrame(data) ==
    [type |-> "DataFrame",
     columns |-> ColumnsOf(data),
     rows |-> [i \in 1..Len(data) |->
                 [j \in 1..Len(ColumnsOf(data)) |-> data[i][ColumnsOf(data)[j]]]]]

\* the dict literal with the two frames under each other's key
AllFramesSwapped(attFrame, posFrame) ==
    [type |-> "dict",
     items |-> [ATTITUDE |-> posFrame, GLOBAL_POSITION_INT |-> attFrame]]

\* the dict literal returned when message_type is falsy
AllFrames(attFrame, posFrame) ==
    [type |-> "dict",
     items |-> [ATTITUDE |-> attFrame, GLOBAL_POSITION_INT |-> posFrame]]

\* get_collected_data(message_type) for a truthy message_type
GetOne(message_type, att, pos) ==
    IF message_type = PyStr("ATTITUDE") THEN DataFrame(att)
    ELSE IF message_type = PyStr("GLOBAL_POSITION_INT") THEN DataFrame(pos)
    ELSE None

(***************************************************************************)
(* Threads                                                                 *)
(***************************************************************************)
ThreadIds == 1..Len(threads)
Alive(t) == threads[t].pc \in {"while", "recv", "dispatch", "append"}
AliveThreads == {t \in ThreadIds : Alive(t)}

\* the caller's frame outside get_collected_data
NoFrame == [arg |-> None, attFrame |-> None, points |-> {}, recvd |-> FALSE]
\* lastGet before any call.  calls: 0, then 1, then 2 for a call that repeats the
\* argument of the call before it with no record appended since that call began;
\* recvd, stale: a message was received, a record was appended, since the call began
NoGet == [arg |-> None, ret |-> None, calls |-> 0, recvd |-> FALSE, stale |-> FALSE]

Buffers == <<attitude_data, position_data>>

Init ==
    /\ attitude_data = <<>>
    /\ position_data = <<>>
    /\ running = FALSE
    /\ collection_thread = NoThread
    /\ threads = <<>>
    /\ received = <<>>
    /\ recv_running = <<>>
    /\ att_src = <<>>
    /\ pos_src = <<>>
    /\ callerPc = "idle"
    /\ callerLocal = NoFrame
    /\ stopOutcome = "none"
    /\ lastGet = NoGet
    /\ cleared = {}

(***************************************************************************)
(* Caller: start_collection                                                *)
(***************************************************************************)
\* a start_collection that begins with fresh lists
StartSetRunningFresh(max) ==
    /\ callerPc = "idle"
    /\ Len(threads) < max
    /\ running' = TRUE
    /\ callerPc' = "start_create"
    /\ stopOutcome' = "none"
    /\ attitude_data' = <<>>
    /\ position_data' = <<>>
    /\ att_src' = <<>>
    /\ pos_src' = <<>>
    /\ UNCHANGED <<collection_thread, threads, received, recv_running, callerLocal,
                   lastGet, cleared>>

\* line 47: self.running = True
StartSetRunning(max) ==
    /\ callerPc = "idle"
    /\ Len(threads) < max
    /\ running' = TRUE
    /\ callerPc' = "start_create"
    /\ stopOutcome' = "none"
    /\ UNCHANGED <<attitude_data, position_data, collection_thread, threads, received,
                   recv_running, att_src, pos_src, callerLocal, lastGet, cleared>>

\* line 48: self.collection_thread = threading.Thread(...), a thread not started
StartCreateThread ==
    /\ callerPc = "start_create"
    /\ threads' = Append(threads, [pc |-> "created", msg |-> 0, err |-> "", data |-> None])
    /\ collection_thread' = Len(threads) + 1
    /\ callerPc' = "start_thread"
    /\ UNCHANGED <<attitude_data, position_data, running, received, recv_running,
                   att_src, pos_src, callerLocal, stopOutcome, lastGet, cleared>>

\* line 49: self.collection_thread.start() starts the thread, then waits for it
\* to have begun
StartThread ==
    /\ callerPc = "start_thread"
    /\ threads' = [threads EXCEPT ![collection_thread].pc = "while"]
    /\ callerPc' = "start_wait"
    /\ UNCHANGED <<attitude_data, position_data, running, collection_thread, received,
                   recv_running, att_src, pos_src, callerLocal, stopOutcome, lastGet,
                   cleared>>

\* a Thread.start() that returns only once the link has delivered a message
StartReturnAfterReceive ==
    /\ callerPc = "start_wait"
    /\ received # <<>>
    /\ callerPc' = "idle"
    /\ UNCHANGED <<attitude_data, position_data, running, collection_thread, threads,
                   received, recv_running, att_src, pos_src, callerLocal, stopOutcome,
                   lastGet, cleared>>

\* Thread.start() returns (the new thread has begun): start_collection returns
StartReturn ==
    /\ callerPc = "start_wait"
    /\ callerPc' = "idle"
    /\ UNCHANGED <<attitude_data, position_data, running, collection_thread, threads,
                   received, recv_running, att_src, pos_src, callerLocal, stopOutcome,
                   lastGet, cleared>>

\* start_collection, explored up to max calls
start_collection(max) ==
    \/ StartSetRunning(max)
    \/ StartCreateThread
    \/ StartThread
    \/ StartReturn

StartCollection == start_collection(MaxThreads)

(***************************************************************************)
(* Caller: stop_collection                                                 *)
(***************************************************************************)
\* self.running = False; then self.collection_thread.join() begins, or raises
\* a stop_collection that returns normally when no thread was ever started
StopCollectionGuarded ==
    /\ callerPc = "idle"
    /\ running' = FALSE
    /\ IF collection_thread = NoThread
       THEN /\ stopOutcome' = "returned"
            /\ callerPc' = "idle"
       ELSE /\ stopOutcome' = "none"
            /\ callerPc' = "join"
    /\ UNCHANGED <<attitude_data, position_data, collection_thread, threads,
                   received, recv_running, att_src, pos_src, callerLocal, lastGet>>
    /\ cleared' = cleared \cup AliveThreads

\* a stop_collection that also empties the buffers
StopCollectionClears ==
    /\ callerPc = "idle"
    /\ running' = FALSE
    /\ IF collection_thread = NoThread
       THEN /\ stopOutcome' = "AttributeError"
            /\ callerPc' = "idle"
       ELSE /\ stopOutcome' = "none"
            /\ callerPc' = "join"
    /\ attitude_data' = <<>>
    /\ position_data' = <<>>
    /\ att_src' = <<>>
    /\ pos_src' = <<>>
    /\ UNCHANGED <<collection_thread, threads, received, recv_running,
                   callerLocal, lastGet>>
    /\ cleared' = cleared \cup AliveThreads

\* AttributeError when collection_thread is None
StopCollection ==
    /\ callerPc = "idle"
    /\ running' = FALSE
    /\ IF collection_thread = NoThread
       THEN /\ stopOutcome' = "AttributeError"
            /\ callerPc' = "idle"
       ELSE /\ stopOutcome' = "none"
            /\ callerPc' = "join"
    /\ UNCHANGED <<attitude_data, position_data, collection_thread, threads,
                   received, recv_running, att_src, pos_src, callerLocal, lastGet>>
    /\ cleared' = cleared \cup AliveThreads

\* join() returns once the joined thread is no longer alive
StopJoinReturn ==
    /\ callerPc = "join"
    /\ ~ Alive(collection_thread)
    /\ callerPc' = "idle"
    /\ stopOutcome' = "returned"
    /\ UNCHANGED <<attitude_data, position_data, running, collection_thread,
                   threads, received, recv_running, att_src, pos_src, callerLocal,
                   lastGet>>
    /\ UNCHANGED cleared

(***************************************************************************)
(* Caller: get_collected_data                                              *)
(***************************************************************************)
\* the record of a call that returns ret, during which recvd and stale became true
Completed(arg, ret, recvd, stale) ==
    [arg |-> arg,
     ret |-> ret,
     calls |-> IF lastGet.calls > 0 /\ lastGet.arg = arg /\ ~ lastGet.stale
               THEN 2 ELSE 1,
     recvd |-> recvd,
     stale |-> stale]

\* a get_collected_data that empties the list it has read
GetCollectedOneDrain(message_type) ==
    /\ callerPc = "idle"
    /\ Truthy(message_type)
    /\ lastGet' = Completed(message_type,
                            GetOne(message_type, attitude_data, position_data),
                            FALSE, FALSE)
    /\ attitude_data' = IF message_type = PyStr("ATTITUDE") THEN <<>> ELSE attitude_data
    /\ position_data' = IF message_type = PyStr("GLOBAL_POSITION_INT")
                        THEN <<>> ELSE position_data
    /\ att_src' = IF message_type = PyStr("ATTITUDE") THEN <<>> ELSE att_src
    /\ pos_src' = IF message_type = PyStr("GLOBAL_POSITION_INT") THEN <<>> ELSE pos_src
    /\ UNCHANGED <<running, collection_thread, threads, received, recv_running, callerPc,
                   callerLocal, stopOutcome>>
    /\ UNCHANGED cleared

\* truthy message_type: one DataFrame (or None) is built and returned
GetCollectedOne(message_type) ==
    /\ callerPc = "idle"
    /\ Truthy(message_type)
    /\ lastGet' = Completed(message_type,
                            GetOne(message_type, attitude_data, position_data),
                            FALSE, FALSE)
    /\ UNCHANGED <<attitude_data, position_data, running, collection_thread,
                   threads, received, recv_running, att_src, pos_src, callerPc,
                   callerLocal, stopOutcome>>
    /\ UNCHANGED cleared

\* falsy message_type: the dict literal evaluates pd.DataFrame(self.attitude_data) first
GetCollectedAllAttitude(message_type) ==
    /\ callerPc = "idle"
    /\ ~ Truthy(message_type)
    /\ callerPc' = "get_position"
    /\ callerLocal' = [arg |-> message_type,
                       attFrame |-> DataFrame(attitude_data),
                       points |-> {Buffers},
                       recvd |-> FALSE]
    /\ UNCHANGED <<attitude_data, position_data, running, collection_thread,
                   threads, received, recv_running, att_src, pos_src, stopOutcome, lastGet>>
    /\ UNCHANGED cleared

\* ... then pd.DataFrame(self.position_data), and returns the dict
GetCollectedAllPosition ==
    /\ callerPc = "get_position"
    /\ callerPc' = "idle"
    /\ lastGet' = Completed(callerLocal.arg,
                            AllFrames(callerLocal.attFrame, DataFrame(position_data)),
                            callerLocal.recvd,
                            Cardinality(callerLocal.points) > 1)
    /\ callerLocal' = NoFrame
    /\ UNCHANGED <<attitude_data, position_data, running, collection_thread,
                   threads, received, recv_running, att_src, pos_src, stopOutcome>>
    /\ UNCHANGED cleared

(***************************************************************************)
(* _collection_loop, thread t                                              *)
(***************************************************************************)
SetThread(t, pc, msg, err) ==
    threads' = [threads EXCEPT ![t] = [pc |-> pc, msg |-> msg, err |-> err,
                                       data |-> None]]

\* while self.running:
LoopTest(t) ==
    /\ threads[t].pc = "while"
    /\ SetThread(t, IF running THEN "recv" ELSE "exited", 0, "")
    /\ UNCHANGED <<attitude_data, position_data, running, collection_thread,
                   received, recv_running, att_src, pos_src, callerPc, callerLocal,
                   stopOutcome, lastGet>>
    /\ UNCHANGED cleared

\* msg = self.connection.recv_msg() returns the message m
RecvMsg(t, m) ==
    /\ threads[t].pc = "recv"
    /\ Len(received) < MaxMsgs
    /\ received' = Append(received, m)
    /\ recv_running' = Append(recv_running, running)
    /\ SetThread(t, "dispatch", Len(received) + 1, "")
    /\ lastGet' = IF lastGet.calls > 0 THEN [lastGet EXCEPT !.recvd = TRUE] ELSE lastGet
    /\ callerLocal' = IF callerPc = "get_position"
                      THEN [callerLocal EXCEPT !.recvd = TRUE]
                      ELSE callerLocal
    /\ UNCHANGED <<attitude_data, position_data, running, collection_thread,
                   att_src, pos_src, callerPc, stopOutcome>>
    /\ UNCHANGED cleared

\* recv_msg() returns None: "if msg is not None" fails, back to the loop test
RecvNone(t) ==
    /\ threads[t].pc = "recv"
    /\ SetThread(t, "while", 0, "")
    /\ UNCHANGED <<attitude_data, position_data, running, collection_thread,
                   received, recv_running, att_src, pos_src, callerPc, callerLocal,
                   stopOutcome, lastGet>>
    /\ UNCHANGED cleared

\* recv_msg() raises: nothing in the loop catches it, the thread ends
RecvRaise(t) ==
    /\ threads[t].pc = "recv"
    /\ SetThread(t, "crashed", 0, "recv_msg")
    /\ UNCHANGED <<attitude_data, position_data, running, collection_thread,
                   received, recv_running, att_src, pos_src, callerPc, callerLocal,
                   stopOutcome, lastGet>>
    /\ UNCHANGED cleared

\* history kept when a record is appended: the buffers as they now are, for a
\* get_collected_data call that is between its two reads
NoteAppend(att, pos) ==
    /\ callerLocal' = IF callerPc = "get_position"
                      THEN [callerLocal EXCEPT !.points = @ \cup {<<att, pos>>}]
                      ELSE callerLocal
    /\ lastGet' = IF lastGet.calls > 0 THEN [lastGet EXCEPT !.stale = TRUE] ELSE lastGet

\* "if msg is not None:" up to the extractor's return, for the message thread t
\* holds; the extractor reads time.time() and its record stays in the local
\* variable data until the thread runs again
Dispatch(t) ==
    /\ threads[t].pc = "dispatch"
    /\ LET id == threads[t].msg
           msg == received[id]
       IN IF get_type(msg) \in DOMAIN message_types
          THEN \E now \in Times :
                 LET data == CallExtractor(get_type(msg), msg, now)
                 IN IF data.exc # ""
                    THEN SetThread(t, "crashed", id, data.exc)
                    ELSE threads' = [threads EXCEPT ![t] =
                                       [pc |-> "append", msg |-> id, err |-> "",
                                        data |-> data.value]]
          ELSE SetThread(t, "while", 0, "")
    /\ UNCHANGED <<attitude_data, position_data, running, collection_thread,
                   received, recv_running, att_src, pos_src, callerPc, callerLocal,
                   stopOutcome, lastGet>>
    /\ UNCHANGED cleared

\* "if data:" and the append to the list of the message's kind
AppendData(t) ==
    /\ threads[t].pc = "append"
    /\ LET id == threads[t].msg
           msg == received[id]
           data == threads[t].data
       IN IF ~ DictTruthy(data)
          THEN UNCHANGED <<attitude_data, position_data,
                           att_src, pos_src, callerLocal, lastGet>>
          ELSE IF get_type(msg) = "ATTITUDE"
          THEN /\ attitude_data' = Append(attitude_data, data)
               /\ att_src' = Append(att_src, id)
               /\ NoteAppend(attitude_data', position_data)
               /\ UNCHANGED <<position_data, pos_src>>
          ELSE IF get_type(msg) = "GLOBAL_POSITION_INT"
          THEN /\ position_data' = Append(position_data, data)
               /\ pos_src' = Append(pos_src, id)
               /\ NoteAppend(attitude_data, position_data')
               /\ UNCHANGED <<attitude_data, att_src>>
          ELSE UNCHANGED <<attitude_data, position_data,
                           att_src, pos_src, callerLocal, lastGet>>
    /\ SetThread(t, "while", 0, "")
    /\ UNCHANGED <<running, collection_thread, received, recv_running,
                   callerPc, stopOutcome>>
    /\ UNCHANGED cleared

Next ==
    \/ StartCollection
    \/ StopCollection
    \/ StopJoinReturn
    \/ \E a \in MessageTypeArgs : GetCollectedOne(a)
    \/ \E a \in MessageTypeArgs : GetCollectedAllAttitude(a)
    \/ GetCollectedAllPosition
    \/ \E t \in ThreadIds : LoopTest(t)
    \/ \E t \in ThreadIds : \E m \in Messages : RecvMsg(t, m)
    \/ \E t \in ThreadIds : RecvNone(t)
    \/ \E t \in ThreadIds : RecvRaise(t)
    \/ \E t \in ThreadIds : Dispatch(t)
    \/ \E t \in ThreadIds : AppendData(t)

Spec == Init /\ [][Next]_vars

\* one step of loop thread t
ThreadStep(t) ==
    /\ t \in ThreadIds
    /\ \/ LoopTest(t)
       \/ \E m \in Messages : RecvMsg(t, m)
       \/ RecvNone(t)
       \/ RecvRaise(t)
       \/ Dispatch(t)
       \/ AppendData(t)

\* every started thread keeps being scheduled and every pending recv_msg()
\* call returns; a join() whose thread has ended returns
LiveSpec ==
    /\ Spec
    /\ WF_vars(StopJoinReturn)
    /\ \A t \in 1..MaxThreads : WF_vars(ThreadStep(t))

\* the caller only starts and stops: start_collection up to MaxStarts times
StartAgain == start_collection(MaxStarts)

NextRestart ==
    \/ StartAgain
    \/ StopCollection
    \/ StopJoinReturn
    \/ \E t \in ThreadIds : LoopTest(t)
    \/ \E t \in ThreadIds : \E m \in Messages : RecvMsg(t, m)
    \/ \E t \in ThreadIds : RecvNone(t)
    \/ \E t \in ThreadIds : RecvRaise(t)
    \/ \E t \in ThreadIds : Dispatch(t)
    \/ \E t \in ThreadIds : AppendData(t)

RestartSpec == Init /\ [][NextRestart]_vars

(***************************************************************************)
(* Vocabulary of the properties                                            *)
(***************************************************************************)
\* the kinds that have a buffer
CollectedKinds == {"ATTITUDE", "GLOBAL_POSITION_INT"}

\* indices in received of the messages a loop holds and has not finished with
InFlight ==
    {threads[t].msg : t \in {u \in ThreadIds : threads[u].pc \in {"dispatch", "append"}}}

\* the message is of a collected kind and its extractor returns a record
YieldsRecord(msg) ==
    /\ get_type(msg) \in DOMAIN message_types
    /\ CallExtractor(get_type(msg), msg, 0).exc = ""
    /\ DictTruthy(CallExtractor(get_type(msg), msg, 0).value)

\* the message is of a collected kind and lacks a field its extractor reads
Malformed(msg) ==
    /\ get_type(msg) \in DOMAIN message_types
    /\ CallExtractor(get_type(msg), msg, 0).exc # ""

Indices == [i \in 1..Len(received) |-> i]
IsDispatchedRecord(i, kind) ==
    i \notin InFlight /\ get_type(received[i]) = kind /\ YieldsRecord(received[i])

\* in arrival order, the dispatched messages of the kind that yield a record
ExpectedAttitude == SelectSeq(Indices, LAMBDA i : IsDispatchedRecord(i, "ATTITUDE"))
ExpectedPosition == SelectSeq(Indices, LAMBDA i : IsDispatchedRecord(i, "GLOBAL_POSITION_INT"))

\* row i of the buffer is the record of message src[i], stamped with some time
RowsFrom(buffer, src, kind) ==
    /\ Len(buffer) = Len(src)
    /\ \A i \in 1..Len(buffer) :
         \E now \in Times : buffer[i] = CallExtractor(kind, received[src[i]], now).value

\* thread t takes a step of its loop
Steps(t) == t \in ThreadIds /\ threads[t].pc # "created" /\ threads'[t] # threads[t]

\* a get_collected_data call returns in this step (a call whose record equals
\* the record of the call before it is not told apart from no call)
GetReturns ==
    /\ threads' = threads
    /\ \/ lastGet' # lastGet
       \/ callerPc = "get_position" /\ callerPc' = "idle"

\* what get_collected_data(arg) returns when both buffers are read at point p
SnapshotAt(arg, p) ==
    IF Truthy(arg) THEN GetOne(arg, p[1], p[2])
    ELSE AllFrames(DataFrame(p[1]), DataFrame(p[2]))

(***************************************************************************)
(* C1: at most one _collection_loop thread of the collector is alive at    *)
(* any time, also when start_collection is called while a loop is running. *)
(* start_collection has no guard: a second call starts a second loop.      *)
(***************************************************************************)
C1_AtMostOneLoopAlive == Cardinality(AliveThreads) <= 1

(***************************************************************************)
(* C2: each buffer holds exactly one record per dispatched message of its  *)
(* kind whose extractor returned a record, in the order the messages were  *)
(* received, and nothing else.  Broken by the two loops of C1, which may   *)
(* append in the other order than they received.                           *)
(***************************************************************************)
C2_BuffersFollowArrival ==
    /\ att_src = ExpectedAttitude
    /\ pos_src = ExpectedPosition
    /\ RowsFrom(attitude_data, att_src, "ATTITUDE")
    /\ RowsFrom(position_data, pos_src, "GLOBAL_POSITION_INT")

(***************************************************************************)
(* C3: a loop that dispatches a message whose kind is no key of            *)
(* message_types leaves both buffers unchanged, raises nothing and goes    *)
(* back to its loop test; no row of a buffer comes from such a message.    *)
(***************************************************************************)
NoForeignRow ==
    \A i \in Range(att_src) \cup Range(pos_src) :
        get_type(received[i]) \in CollectedKinds

C3_UnknownKindIgnored ==
    [][ /\ \A t \in ThreadIds :
             ( /\ threads[t].pc = "dispatch"
               /\ get_type(received[threads[t].msg]) \notin CollectedKinds
               /\ Steps(t) )
             => /\ UNCHANGED <<attitude_data, position_data>>
                /\ threads'[t] = [pc |-> "while", msg |-> 0, err |-> "", data |-> None]
        /\ NoForeignRow' ]_vars

\* the only loop has dispatched a message of an unknown kind and then
\* appended the record of a later message
C3_Witness ==
    /\ Len(threads) = 1
    /\ \E i \in 1..Len(received) :
         /\ get_type(received[i]) \notin CollectedKinds
         /\ \E j \in Range(att_src) \cup Range(pos_src) : j > i

(***************************************************************************)
(* C4: when stop_collection has returned, running is False and every loop  *)
(* thread started on the collector has exited.  join() waits for the last  *)
(* thread started only; an earlier loop of C1 may still be alive.          *)
(***************************************************************************)
C4_StopLeavesNoLoop ==
    stopOutcome = "returned" => (~ running /\ AliveThreads = {})

(***************************************************************************)
(* C5: after stop_collection has returned and until the next               *)
(* start_collection, the buffers do not change.  A loop of C1 that         *)
(* stop_collection did not join still appends.                             *)
(***************************************************************************)
C5_StableAfterStop ==
    [][ (stopOutcome = "returned" /\ stopOutcome' = "returned")
        => UNCHANGED <<attitude_data, position_data>> ]_vars

(***************************************************************************)
(* C6: what get_collected_data returns equals the buffer contents at one   *)
(* single point during the call.  With message_type omitted the two        *)
(* buffers are read one after the other and the loop appends in between.   *)
(***************************************************************************)
C6_SnapshotAtOnePoint ==
    [][ GetReturns =>
          \E p \in (IF callerPc = "get_position" THEN callerLocal.points ELSE {})
                    \cup {Buffers} :
             lastGet'.ret = SnapshotAt(lastGet'.arg, p) ]_vars

(***************************************************************************)
(* C7: a loop that dispatches a message of a collected kind lacking a      *)
(* required field appends nothing, raises nothing and stays alive.  The    *)
(* extractors read the attributes unguarded: AttributeError ends the loop. *)
(***************************************************************************)
C7_MalformedSkipped ==
    [][ \A t \in ThreadIds :
          ( /\ threads[t].pc = "dispatch"
            /\ Malformed(received[threads[t].msg])
            /\ Steps(t) )
          => /\ UNCHANGED <<attitude_data, position_data>>
             /\ threads'[t].pc = "while" ]_vars

(***************************************************************************)
(* C8: get_collected_data(message_type) with a message_type that is given  *)
(* and is neither ATTITUDE nor GLOBAL_POSITION_INT, the empty string       *)
(* included, returns None.  "if message_type:" sends "" to the dict.       *)
(***************************************************************************)
C8_UnknownKindGivesNone ==
    ( /\ lastGet.calls > 0
      /\ lastGet.arg # None
      /\ lastGet.arg \notin {PyStr(k) : k \in CollectedKinds} )
    => lastGet.ret = None

(***************************************************************************)
(* C9: get_collected_data() with message_type omitted returns a mapping    *)
(* whose keys are the keys of message_types and whose value for each kind  *)
(* is what get_collected_data(kind) returns in the same state (no record   *)
(* having been appended since the call began).                             *)
(***************************************************************************)
C9_AllIsEachKind ==
    (lastGet.calls > 0 /\ lastGet.arg = None)
    => /\ lastGet.ret.type = "dict"
       /\ DOMAIN lastGet.ret.items = DOMAIN message_types
       /\ ~ lastGet.stale =>
            \A k \in DOMAIN message_types :
                lastGet.ret.items[k] = GetOne(PyStr(k), attitude_data, position_data)

\* a call without argument has returned both buffers, each with a row, while a loop runs
C9_Witness ==
    /\ lastGet.calls > 0
    /\ lastGet.arg = None
    /\ ~ lastGet.stale
    /\ AliveThreads # {}
    /\ Len(attitude_data) > 0
    /\ Len(position_data) > 0

(***************************************************************************)
(* C10, as stated: two get_collected_data calls with the same argument and *)
(* no message received by a loop from the start of the first to the return *)
(* of the second return identical snapshots.  A message received before    *)
(* the first call may be appended between the two.                         *)
(***************************************************************************)
C10_SameIfNoneReceived ==
    [][ ( /\ GetReturns
          /\ lastGet.calls > 0
          /\ lastGet'.arg = lastGet.arg
          /\ ~ lastGet.recvd )
        => lastGet'.ret = lastGet.ret ]_vars

(***************************************************************************)
(* C10, amended: two get_collected_data calls with the same argument and   *)
(* no record appended from the start of the first to the return of the     *)
(* second return identical snapshots, running or stopped.                  *)
(***************************************************************************)
C10_SameIfNoneAppended ==
    [][ ( /\ GetReturns
          /\ lastGet.calls > 0
          /\ lastGet'.arg = lastGet.arg
          /\ ~ lastGet.stale )
        => lastGet'.ret = lastGet.ret ]_vars

\* a call has repeated the call before it while a loop runs, and returned rows
C10_Witness ==
    /\ lastGet.calls = 2
    /\ running
    /\ AliveThreads # {}
    /\ lastGet.ret.type = "DataFrame"
    /\ Len(lastGet.ret.rows) > 0

(***************************************************************************)
(* C11: the buffers are append-only over the collector's lifetime: in      *)
(* every step the old contents of each buffer are a prefix of the new      *)
(* contents; stop_collection followed by start_collection clears and       *)
(* reorders nothing.                                                       *)
(***************************************************************************)
IsPrefix(s, t) == Len(s) <= Len(t) /\ SubSeq(t, 1, Len(s)) = s

C11_AppendOnly ==
    [][ /\ IsPrefix(attitude_data, attitude_data')
        /\ IsPrefix(position_data, position_data') ]_vars

\* a restart with a row on each side of it.  The first loop has exited and the
\* second is alive with the caller free, so stop_collection joined the first
\* loop before the second start; message 1 arrived while running was False
\* (during that stop), message 2 while it was True again (in the second loop)
C11_Witness ==
    /\ callerPc = "idle"
    /\ Len(threads) = 2
    /\ threads[1].pc = "exited"
    /\ Alive(2)
    /\ running
    /\ recv_running = <<FALSE, TRUE>>
    /\ att_src = <<1, 2>>
    /\ Len(attitude_data) = 2

(***************************************************************************)
(* C14: every row of position_data carries the lat, lon and alt of the     *)
(* message it was made from as latitude, longitude and altitude, and every *)
(* row of attitude_data that message's roll, pitch and yaw, unconverted.   *)
(***************************************************************************)
C14_RawValuesKept ==
    /\ \A i \in 1..Len(attitude_data) :
         /\ attitude_data[i].roll = received[att_src[i]].fields.roll
         /\ attitude_data[i].pitch = received[att_src[i]].fields.pitch
         /\ attitude_data[i].yaw = received[att_src[i]].fields.yaw
    /\ \A i \in 1..Len(position_data) :
         /\ position_data[i].latitude = received[pos_src[i]].fields.lat
         /\ position_data[i].longitude = received[pos_src[i]].fields.lon
         /\ position_data[i].altitude = received[pos_src[i]].fields.alt

\* a row of each kind has been collected
C14_Witness ==
    /\ Len(attitude_data) > 0
    /\ Len(position_data) > 0
    /\ position_data[1].altitude = 9
    /\ attitude_data[1].roll = 1

\* stop_collection does not return while the thread it joins is alive, and
\* returns once that thread's pending receive has returned
StopWaitsForJoinedLoop ==
    /\ [][ (callerPc = "join" /\ Alive(collection_thread))
           => callerPc' = "join" ]_vars
    /\ (callerPc = "join" /\ threads[collection_thread].pc = "recv")
         ~> (callerPc = "idle" /\ stopOutcome = "returned")

(***************************************************************************)
(* C12: stop_collection called while a loop is blocked in recv_msg() does  *)
(* not return before that receive has returned (so never, if the receive   *)
(* never returns), and returns eventually when every pending receive       *)
(* returns.  A loop enters recv_msg() only with the flag set, so a loop in *)
(* recv_msg() during the join was there when stop_collection was called.   *)
(* join() waits for the last thread started only: with the two loops of C1 *)
(* it returns while the earlier loop's receive is still pending.           *)
(***************************************************************************)
C12_StopWaitsForReceive ==
    /\ [][ (callerPc = "join" /\ \E t \in ThreadIds : threads[t].pc = "recv")
           => callerPc' = "join" ]_vars
    /\ (callerPc = "join" /\ \E t \in ThreadIds : threads[t].pc = "recv")
         ~> (callerPc = "idle" /\ stopOutcome = "returned")

(***************************************************************************)
(* C13: start_collection sets running to True, creates and starts a loop   *)
(* thread whose handle it stores, and returns without waiting for any      *)
(* recv_msg() call: once the thread is started the return is enabled       *)
(* whatever the link has delivered, no step of the call is a receive, and  *)
(* at the return running is True and the handle is the thread started. The *)
(* caller is then free to query or stop.                                   *)
(***************************************************************************)
C13_StartDoesNotBlock ==
    /\ [](callerPc = "start_wait" => ENABLED StartReturn)
    /\ [][ /\ (callerPc = "idle" /\ callerPc' = "start_create") => running'
           /\ Len(threads') > Len(threads)
                => /\ running'
                   /\ Len(threads') = Len(threads) + 1
                   /\ collection_thread' = Len(threads')
                   /\ threads'[Len(threads')].pc = "created"
                   /\ received' = received
           /\ (callerPc = "start_thread" /\ callerPc' # callerPc)
                => /\ running'
                   /\ threads'[collection_thread'].pc = "while"
                   /\ received' = received
           /\ (callerPc = "start_wait" /\ callerPc' # callerPc)
                => /\ running'
                   /\ collection_thread' = Len(threads')
                   /\ threads'[collection_thread'].pc # "created"
                   /\ received' = received
                   /\ callerPc' = "idle" ]_vars

\* the link has delivered nothing, the loop is blocked in recv_msg(), and the
\* caller has started, queried, and is free for its next call
C13_Witness ==
    /\ running
    /\ callerPc = "idle"
    /\ Len(threads) = 1
    /\ threads[1].pc = "recv"
    /\ received = <<>>
    /\ lastGet.calls > 0

\* a step of the caller: no loop thread that exists has moved
CallerActs == \A t \in ThreadIds : threads[t].pc = "created" \/ threads'[t] = threads[t]

\* a step of get_collected_data
GetActs ==
    /\ CallerActs
    /\ \/ lastGet' # lastGet
       \/ callerLocal' # callerLocal
       \/ callerPc = "get_position"
       \/ callerPc' = "get_position"

(***************************************************************************)
(* C17: only the collection loop changes a buffer.  A step of              *)
(* start_collection, stop_collection or get_collected_data leaves          *)
(* attitude_data and position_data unchanged, and a step of                *)
(* get_collected_data also leaves running, the thread handle and the       *)
(* threads unchanged.                                                      *)
(***************************************************************************)
C17_OnlyLoopWritesBuffers ==
    [][ /\ CallerActs => UNCHANGED <<attitude_data, position_data>>
        /\ GetActs => UNCHANGED <<running, collection_thread, threads>> ]_vars

\* both buffers hold a record, two loops have been started, stop_collection has
\* returned and get_collected_data has been called twice
C17_Witness ==
    /\ Len(attitude_data) > 0
    /\ Len(position_data) > 0
    /\ Len(threads) = 2
    /\ stopOutcome = "returned"
    /\ lastGet.calls = 2

(***************************************************************************)
(* C18: on a collector never started (collection_thread is None) a         *)
(* stop_collection never returns normally nor waits: its step ends in      *)
(* AttributeError with running False and the buffers and handle unchanged. *)
(* A start_collection that follows sets running, with the state otherwise  *)
(* as the first statement of a first start_collection leaves it, then      *)
(* creates and starts one fresh loop at its while test and returns.        *)
(***************************************************************************)
C18_StopBeforeStartFails ==
    /\ [](collection_thread = NoThread
           => stopOutcome # "returned" /\ callerPc # "join")
    /\ [][ /\ (collection_thread = NoThread /\ callerPc' = "idle"
                 /\ stopOutcome' # stopOutcome)
              => /\ stopOutcome' = "AttributeError"
                 /\ ~ running'
                 /\ callerPc' = "idle"
                 /\ UNCHANGED <<attitude_data, position_data, collection_thread>>
           /\ (stopOutcome = "AttributeError" /\ callerPc' = "start_create")
              => /\ running'
                 /\ stopOutcome' = "none"
                 /\ UNCHANGED <<attitude_data, position_data, threads,
                                collection_thread>>
           /\ (collection_thread = NoThread /\ Len(threads') > Len(threads))
              => /\ running'
                 /\ threads' = << [pc |-> "created", msg |-> 0, err |-> "", data |-> None] >>
                 /\ collection_thread' = 1
                 /\ stopOutcome' = "none"
                 /\ UNCHANGED <<attitude_data, position_data>>
           /\ (Len(threads) = 1 /\ callerPc = "start_thread" /\ callerPc' # callerPc)
              => /\ running'
                 /\ threads' = << [pc |-> "while", msg |-> 0, err |-> "", data |-> None] >>
                 /\ collection_thread' = 1
                 /\ UNCHANGED <<attitude_data, position_data>>
           /\ (Len(threads) = 1 /\ callerPc = "start_wait" /\ callerPc' # callerPc)
              => /\ running'
                 /\ threads'[1].pc # "created"
                 /\ callerPc' = "idle" ]_vars

\* stop_collection has failed on a collector never started, and the caller
\* has gone on to query it
C18_Witness ==
    /\ stopOutcome = "AttributeError"
    /\ collection_thread = NoThread
    /\ ~ running
    /\ lastGet.calls > 0
    /\ lastGet.arg = None

\* the messages a receive returned while the flag was cleared
ReceivedAfterClear == {i \in 1..Len(received) : ~ recv_running[i]}

\* while the flag stays cleared a loop obeys it: it exits at its next test,
\* starts no receive, and a single loop receives at most one more message
LoopObeysClearedFlag ==
    /\ [](Len(threads) = 1 => Cardinality(ReceivedAfterClear) <= 1)
    /\ [][ \A t \in ThreadIds :
             Steps(t) =>
               /\ threads[t].pc = "while"
                    => threads'[t].pc = IF running THEN "recv" ELSE "exited"
               /\ threads'[t].pc = "recv"
                    => threads[t].pc = "while" /\ running ]_vars

\* the flag is read at the while test only: a message a receive returns is
\* dispatched, and one returned after the flag was cleared is, if of a collected
\* kind, appended
C16_PendingMessageAppended ==
    [][ \A t \in ThreadIds :
          Steps(t) =>
            /\ threads[t].pc = "while"
                 => threads'[t].pc = IF running THEN "recv" ELSE "exited"
            /\ threads[t].pc \in {"recv", "dispatch", "append"}
                 => threads'[t].pc # "exited"
            /\ (threads[t].pc = "recv" /\ received' # received)
                 => /\ threads'[t].pc = "dispatch"
                    /\ threads'[t].msg = Len(received')
            /\ (threads[t].pc = "dispatch"
                  /\ ~ recv_running[threads[t].msg]
                  /\ get_type(received[threads[t].msg]) \in CollectedKinds)
                 => /\ threads'[t].pc = "append"
                    /\ threads'[t].msg = threads[t].msg
            /\ threads[t].pc = "append"
                 => /\ Len(attitude_data') + Len(position_data')
                         = Len(attitude_data) + Len(position_data) + 1
                    /\ threads[t].msg \in Range(att_src') \cup Range(pos_src')
                    /\ threads'[t].pc = "while" ]_vars

\* a loop that was alive when stop_collection cleared the flag starts no
\* receive afterwards and exits at its next test: it appends no more than the
\* record of the one message it holds or is waiting for
C16_NoReceiveAfterClear ==
    [][ \A t \in ThreadIds :
          (Steps(t) /\ t \in cleared) =>
            /\ threads'[t].pc # "recv"
            /\ threads[t].pc = "while" => threads'[t].pc = "exited" ]_vars

(***************************************************************************)
(* C16: the loop reads running at the top of each iteration only: a        *)
(* message returned by a receive that was pending when stop_collection     *)
(* cleared the flag is still dispatched and, if of a collected kind,       *)
(* appended; after the flag is cleared a loop starts no new receive and    *)
(* appends at most one more record before exiting.  A message of a         *)
(* collected kind that lacks a field ends the loop with nothing appended   *)
(* (C7), and after start, start, stop, start the first loop of C1, alive   *)
(* through the stop, finds the flag set again and goes on receiving.       *)
(***************************************************************************)
C16_FlagReadAtLoopTop ==
    /\ C16_PendingMessageAppended
    /\ C16_NoReceiveAfterClear

(***************************************************************************)
(* C15: when recv_msg() or an extractor raises in a loop, that loop ends   *)
(* in the same step with running and the buffers as they were, and never   *)
(* moves again; no record is appended after it unless start_collection is  *)
(* called again; a stop_collection that joins a loop ended this way        *)
(* returns.  Threads are numbered in the order they were started, so a     *)
(* record appended by a loop started before the loop that has raised is    *)
(* appended without a new start_collection: the earlier loop of C1 does    *)
(* this.                                                                   *)
(***************************************************************************)
C15_LoopDiesOnRaise ==
    /\ [][ \A t \in ThreadIds :
             Steps(t) =>
               /\ threads[t].pc # "crashed"
               /\ threads'[t].pc = "crashed"
                    => UNCHANGED <<running, attitude_data, position_data>>
               /\ <<attitude_data, position_data>>' # <<attitude_data, position_data>>
                    => \A u \in ThreadIds : u > t => threads[u].pc # "crashed" ]_vars
    /\ (callerPc = "join" /\ threads[collection_thread].pc = "crashed")
         ~> (callerPc = "idle" /\ stopOutcome = "returned")

====
